---- MODULE Spec2Model ----
(***************************************************************************)
(* 360blur: the job pipeline of blur360_webapp.py (the orchestrator: a     *)
(* Flask process with its in-memory registry processing_jobs, one monitor  *)
(* thread per job and the request handlers) and blur360_worker.py (the     *)
(* worker process), which share nothing but the job's status file          *)
(* status/<job_id>.json.  One job id is modelled; jobs do not interact.    *)
(***************************************************************************)
EXTENDS Integers, Sequences, FiniteSets, TLC

(* ------------------------------ bounds -------------------------------- *)
\* frame counts a video of the lifecycle specification may report
MaxFrames == 3
\* frame counts of the batch-partition specification (covers 237 and the cap of 100)
MaxSplitFrames == 1100
\* cancel requests per run
MaxCancels == 2
\* orchestrator restarts per run
MaxRestarts == 1
\* cpu_count() of the host in the batch-sequencing specification
MaxCores == 3
\* detections per frame of the merger specification
MaxDet == 3
\* left edges (0..MaxBoxX), widths (1..MaxBoxW) and top edges (0..MaxBoxY) of the
\* detections of the merger specification; their height is 1
MaxBoxX == 2
MaxBoxW == 2
MaxBoxY == 0
\* the coordinate-correction specification: detections per call, their widths
\* (0..MaxAdjW), the padding (0..MaxPad) and the frame width (1..MaxWidth)
MaxAdjDet == 1
MaxAdjW == 3
MaxPad == 2
MaxWidth == 4
\* the time-estimate specification: the two rates in frames per second
\* (0..MaxFps) and the frames left (0..MaxLeft)
MaxFps == 10
MaxLeft == 95
\* frame counts of the batch-sequencing specification: 20..MaxPoolFrames, the
\* first counts whose batches hold more than one frame
MaxPoolFrames == 20
\* frames of a video processed in interactive mode, and trackers a detection starts
MaxTotalFrames == 11
MaxTrackers == 1
\* index requests for the job that are followed step by step
MaxIndexRequests == 2
\* download_file: the retries and the retry_delay it is called with
MaxRetries == 3
MaxRetryDelay == 2

(* ---------------------------- the status file ------------------------- *)
\* status/<job_id>.json is absent, holds no complete JSON document (it was
\* truncated by open(.., 'w') and not written yet, or two writers overlapped),
\* or holds one snapshot.  metrics: the fps/batch/frames/time fields.
Snap(p, m, s, x) ==
  [kind |-> "json", progress |-> p, message |-> m, status |-> s, metrics |-> x]
Absent == [kind |-> "absent", progress |-> 0, message |-> "", status |-> "", metrics |-> FALSE]
Partial == [kind |-> "partial", progress |-> 0, message |-> "", status |-> "", metrics |-> FALSE]

Terminal == {"completed", "error", "cancelled"}

\* no write yet
NoHist ==
  [by |-> "", last |-> Absent, wlast |-> Absent, terminal |-> FALSE, marker |-> FALSE,
   batches |-> 0]

\* the two kinds of detector process_frame uses
Kinds == {"face", "plate"}

\* models is None (use_dnn is false), or the dict load_dnn_models returns, as the
\* set of kinds whose detector in it is not None
NoModels == [loaded |-> FALSE, kinds |-> {}]
Models(k) == [loaded |-> TRUE, kinds |-> k]

\* what can happen to one frame task: the frame is read, blurred and written;
\* the frame cannot be read from the video (IOError); cv2.imwrite returns False
\* and writes nothing; the file written cannot be decoded again
Fates == {"ok", "unreadable", "unwritten", "undecodable"}

\* a blank frame in the output video (the other frames are named by their index)
Blank == -1

VARIABLES
  statusFile,      \* content of status/<job_id>.json
  hist,            \* history of the writes to the file: the last one and its writer (last, by),
                   \* the worker's last one (wlast), whether a terminal snapshot was
                   \* written (terminal), whether cancel_processing wrote its marker (marker),
                   \* the number of batches whose closing snapshot was written (batches)
  inputExists,     \* uploads/<job_id>.mp4 is on disk
  outputExists,    \* processed/<job_id>.mp4 is on disk
  wproc,           \* worker process: "notstarted", "running", "exited", "dead"
  wpc,             \* worker: position in process_video
  wopen,           \* worker holds the status file open for writing (truncated, not dumped)
  frame_count,     \* worker: video_info['frame_count']
  batch_size,      \* worker: batch_size
  frame_batches,   \* worker: the sizes of frame_batches, in order
  batch_idx,       \* worker: batch_idx
  total_processed, \* worker: total_processed
  use_dnn,         \* the use_dnn field of the upload form, which upload_video passes to
                   \* the worker as its --use_dnn flag
  models,          \* worker: models
  pending,         \* worker: the frames of process_args that pool.map has not handed out yet
  running,         \* worker: the frames whose process_frame runs in the pool
  results,         \* worker: the status process_frame returned, per frame index
  artifacts,       \* <job_id>_frames/frame_<i>.jpg, per index of the files present
  outFrames,       \* the frames written to the VideoWriter, in order
  installed,       \* host: the kinds whose model file is in models/
  faults,          \* host: the fates a frame task can meet in this run
  num_cores,       \* host: cpu_count()
  ppc,             \* which function of the frame pipeline stands to be applied, if one
                   \* is studied on its own ("merge", "adjust", "estimate"), or was
                   \* applied ("merged", "adjusted", "estimated"); else "none"
  all_detections,  \* detect_objects: all_detections before the merge, boxes (x, y, w, h)
  merged_detections, \* detect_objects: merged_detections, each with the index of its seed
                   \* and the indices it absorbed
  detections,      \* adjust_coords_for_wrapped_detections: detections
  pad_w,           \* adjust_coords_for_wrapped_detections: pad_w
  original_width,  \* adjust_coords_for_wrapped_detections: original_width
  adjusted,        \* adjust_coords_for_wrapped_detections: adjusted
  frames_per_second, \* process_video: frames_per_second of the batch, in frames/s
  overall_fps,     \* process_video: overall_fps, in frames/s
  remaining_frames, \* process_video: remaining_frames
  weighted_fps,    \* process_video: weighted_fps, in quarters of a frame/s
  estimated_remaining_time, \* process_video: estimated_remaining_time, in milliseconds
  time_msg,        \* process_video: time_msg
  ipc,             \* interactive process_video: "none", "setup", "check", "read", "frame",
                   \* "finalize", "complete", "done"
  seen_cancelled,  \* interactive process_video: the loop ended at its test for a cancelled job
  skip_tracking,   \* interactive process_video: parameter skip_tracking
  disable_legacy_tracking, \* interactive process_video: parameter disable_legacy_tracking
  tracker_backend, \* the OpenCV build has a tracker that create_tracker can construct
  has_tracking_support, \* interactive process_video: has_tracking_support
  detection_interval, \* interactive process_video: detection_interval
  total_frames,    \* interactive process_video: total_frames
  frame_index,     \* interactive process_video: its frame counter, frame_count
  trackers,        \* interactive process_video: trackers, each by the frame that started it
  tracked_objects, \* interactive process_video: tracked_objects, each by the frame that recorded it
  lost,            \* the positions in trackers of the trackers whose update failed or
                   \* gave a box outside the frame
  blurred,         \* the origin of each box of all_detections of the frame last processed
  run_detection,   \* interactive process_video: run_detection
  detected,        \* the frames on which the full detection ran
  indexPc,         \* index, for each request followed step by step: "idle", "register"
                   \* between the read of the status file and the registration, "done"
  indexRead,       \* index, for each such request: status_data
  monitors,        \* the monitor threads these requests started for the job
  dpc,             \* download_file: "none", "loop" in its retry loop, "done"
  url,             \* download_file: "given", or "alternative" in the nested call
  retries,         \* download_file: the attempts of the running call
  retry_delay,     \* download_file: the wait before the next attempt
  attempt,         \* download_file: the index of the retry loop
  alternative,     \* alternative_urls for the file: "none", "same" as the given url, "other"
  asked,           \* the retries and retry_delay download_file was called with
  tried,           \* the attempts made so far: the url and how the attempt ended
  sleeps,          \* the waits made so far, in seconds
  returned,        \* what download_file returned: "none" yet, "True", "False"
  registered,      \* job_id in processing_jobs
  job,             \* processing_jobs[job_id]
  monPc,           \* monitor thread of the job: "none", "poll", "cleanup", "done"
  monRead,         \* what the monitor found in the file, if this step was a poll of it
  cancelPc,        \* cancel_processing: "idle", or "dump" between open(.., 'w') and json.dump
  cancels,         \* cancel requests so far
  restarts,        \* orchestrator restarts so far
  resp             \* the answer of the request handler, if this step was its return

\* the state of the frame tasks and of their files
tvars == <<use_dnn, models, pending, running, results, artifacts, outFrames>>
\* the host, which no step changes
evars == <<installed, faults, num_cores>>
\* the functions of the frame pipeline studied on their own
pvars == <<ppc, all_detections, merged_detections, detections, pad_w, original_width,
           adjusted, frames_per_second, overall_fps, remaining_frames, weighted_fps,
           estimated_remaining_time, time_msg>>
\* process_video of the web application, the single-process mode
ivars == <<ipc, seen_cancelled, skip_tracking, disable_legacy_tracking, tracker_backend,
           has_tracking_support, detection_interval, total_frames, frame_index,
           trackers, tracked_objects, lost, blurred, run_detection, detected>>
\* the index requests followed step by step
rvars == <<indexPc, indexRead, monitors>>
\* the download of one model file
dvars == <<dpc, url, retries, retry_delay, attempt, alternative, asked, tried, sleeps, returned>>
wvars == <<wproc, wpc, wopen, frame_count, batch_size, frame_batches, batch_idx,
           total_processed, tvars>>
ovars == <<registered, job, monPc, cancelPc, cancels, restarts>>
fvars == <<statusFile, hist, inputExists, outputExists>>
vars == <<statusFile, hist, inputExists, outputExists, wproc, wpc, wopen, frame_count,
          batch_size, frame_batches, batch_idx, total_processed, registered, job,
          monPc, monRead, cancelPc, cancels, restarts, resp, tvars, evars, pvars, ivars, rvars, dvars>>

\* what a request handler returns: the HTTP status code and, for the status and
\* index handlers, the status data; src names the branch that answered
Resp(op, code, src, s, p, m) ==
  [op |-> op, code |-> code, src |-> src, status |-> s, progress |-> p, message |-> m]
NoResp == Resp("", 0, "", "", 0, "")

\* a step that is neither the return of a request handler nor a poll of the monitor
Quiet == resp' = NoResp /\ monRead' = "none"

(* ------------------------------ the worker ---------------------------- *)
Min(a, b) == IF a < b THEN a ELSE b
Max(a, b) == IF a > b THEN a ELSE b

\* batch_size = min(100, max(1, frame_count // 10))
BatchSize(n) == Min(100, Max(1, n \div 10))

\* [frames[i:i+batch_size] for i in range(0, len(frames), batch_size)], as the
\* sequence of the slices' lengths
RECURSIVE BatchLens_DropsRemainder(_, _)
BatchLens_DropsRemainder(n, b) ==
  IF n < b THEN <<>> ELSE <<b>> \o BatchLens_DropsRemainder(n - b, b)

RECURSIVE BatchLens(_, _)
BatchLens(n, b) == IF n <= 0 THEN <<>> ELSE <<Min(b, n)>> \o BatchLens(n - b, b)

FrameBatches(n) == BatchLens(n, BatchSize(n))

\* BatchFrames with a slip: a slice starts one frame early, on the last frame
\* of the slice before it
BatchFrames_Overlap(idx, size, batches) ==
  (idx * size - (IF idx > 0 THEN 1 ELSE 0))..(idx * size + batches[idx + 1] - 1)

\* the indices of the frames of frame_batches[idx]: frames[i:i+batch_size] with
\* i = idx * batch_size
BatchFrames(idx, size, batches) == (idx * size)..(idx * size + batches[idx + 1] - 1)

\* 15 + int(80 * total_processed / frame_count), the progress at the start of a
\* batch; int(15 + 80 * total_processed / frame_count) after it is the same number
BatchProgress(tp, n) == 15 + ((80 * tp) \div n)

\* the positions of process_video at which it writes the status file
WritePcs == {"w5", "w10", "w15", "w16", "wbatch", "wmetrics", "wupdate", "w95", "w100", "werr"}

\* next position of the batch loop: another batch, or assembly
LoopPc(idx, batches) == IF idx < Len(batches) THEN "wbatch" ELSE "w95"

\* the snapshot process_video writes at each of its writes
SnapAt(pc) ==
  CASE pc = "w5" -> Snap(5, "Analyzing video", "processing", FALSE)
    [] pc = "w10" -> Snap(10, "Video loaded", "processing", FALSE)
    [] pc = "w15" -> Snap(15, "Loading detection models", "processing", FALSE)
    [] pc = "w16" -> Snap(16, "Starting processing", "processing", FALSE)
    [] pc = "wbatch" ->
         Snap(BatchProgress(total_processed, frame_count), "Processing frames", "processing", FALSE)
    [] pc = "wmetrics" ->
         Snap(BatchProgress(total_processed, frame_count), "Processed", "processing", TRUE)
    [] pc = "wupdate" ->
         Snap(BatchProgress(total_processed, frame_count), "Processed", "processing", FALSE)
    [] pc = "w95" -> Snap(95, "Assembling final video", "processing", FALSE)
    [] pc = "w100" -> Snap(100, "Processing complete", "completed", FALSE)
    [] pc = "werr" -> Snap(0, "Error", "error", FALSE)

\* AfterWrite with a slip: process_video returns after the snapshot of 95
AfterWrite_ReturnsAt95(pc) ==
  CASE pc = "w5" -> "info"
    [] pc = "w10" -> "w15"
    [] pc = "w15" -> "load"
    [] pc = "w16" -> "split"
    [] pc = "wbatch" -> "pool"
    [] pc = "wmetrics" -> "wupdate"
    [] pc = "wupdate" -> LoopPc(batch_idx + 1, frame_batches)
    [] pc = "w95" -> "return"
    [] pc = "w100" -> "return"
    [] pc = "werr" -> "return"

\* where process_video goes after each write
AfterWrite(pc) ==
  CASE pc = "w5" -> "info"
    [] pc = "w10" -> "w15"
    [] pc = "w15" -> "load"
    [] pc = "w16" -> "split"
    [] pc = "wbatch" -> "pool"
    [] pc = "wmetrics" -> "wupdate"
    [] pc = "wupdate" -> LoopPc(batch_idx + 1, frame_batches)
    [] pc = "w95" -> "assemble"
    [] pc = "w100" -> "return"
    [] pc = "werr" -> "return"

\* what json.dump and the close of the file leave on disk: the writer's handle
\* was opened (and the file truncated) earlier. If the file was unlinked since,
\* the data goes to the unlinked inode; if another writer has dumped since, the
\* two documents overlap from offset 0 and the result is either the new document
\* or no valid JSON, depending on their lengths.
Dumped(file, s) ==
  CASE file.kind = "absent" -> {Absent}
    [] file.kind = "partial" -> {s}
    [] file.kind = "json" -> {s, Partial}

\* open(status_file, 'w'): creates or truncates the file
WorkerOpen ==
  /\ wproc = "running" /\ wpc \in WritePcs /\ ~wopen
  /\ wopen' = TRUE
  /\ statusFile' = Partial
  /\ UNCHANGED <<hist, inputExists, outputExists, wproc, wpc, frame_count,
                 batch_size, frame_batches, batch_idx, total_processed>>
  /\ UNCHANGED tvars /\ UNCHANGED evars /\ UNCHANGED pvars /\ UNCHANGED ivars /\ UNCHANGED rvars /\ UNCHANGED dvars
  /\ UNCHANGED ovars /\ Quiet

\* json.dump(status_data, f) and the end of the with block; after the write
\* that opens a batch, process_args is built from the batch's frames
WorkerDump ==
  /\ wproc = "running" /\ wpc \in WritePcs /\ wopen
  /\ wopen' = FALSE
  /\ statusFile' \in Dumped(statusFile, SnapAt(wpc))
  /\ hist' = [hist EXCEPT !.by = "worker", !.last = SnapAt(wpc), !.wlast = SnapAt(wpc),
                          !.terminal = hist.terminal \/ SnapAt(wpc).status \in Terminal,
                          !.batches = IF wpc = "wupdate" THEN hist.batches + 1
                                      ELSE hist.batches]
  /\ wpc' = AfterWrite(wpc)
  /\ batch_idx' = IF wpc = "wupdate" THEN batch_idx + 1 ELSE batch_idx
  /\ wproc' = IF AfterWrite(wpc) = "return" THEN "exited" ELSE "running"
  /\ pending' = IF wpc = "wbatch"
                  THEN BatchFrames(batch_idx, batch_size, frame_batches)
                  ELSE pending
  /\ UNCHANGED <<inputExists, outputExists, frame_count, batch_size, frame_batches,
                 total_processed>>
  /\ UNCHANGED <<use_dnn, models, running, results, artifacts, outFrames>>
  /\ UNCHANGED evars /\ UNCHANGED pvars /\ UNCHANGED ivars /\ UNCHANGED rvars /\ UNCHANGED dvars
  /\ UNCHANGED ovars /\ Quiet

\* extract_video_info: the video opens and reports its frame count, or IOError
WorkerInfo ==
  /\ wproc = "running" /\ wpc = "info"
  /\ \/ \E n \in 0..MaxFrames : frame_count' = n /\ wpc' = "w10"
     \/ frame_count' = frame_count /\ wpc' = "werr"
  /\ UNCHANGED <<wproc, wopen, batch_size, frame_batches, batch_idx, total_processed>>
  /\ UNCHANGED tvars /\ UNCHANGED evars /\ UNCHANGED pvars /\ UNCHANGED ivars /\ UNCHANGED rvars /\ UNCHANGED dvars
  /\ UNCHANGED fvars
  /\ UNCHANGED ovars /\ Quiet

\* models = load_dnn_models() if use_dnn else None; load_dnn_models catches its
\* own exceptions and leaves None for a detector whose model file is missing
WorkerLoad ==
  /\ wproc = "running" /\ wpc = "load"
  /\ models' = IF use_dnn THEN Models(installed) ELSE NoModels
  /\ wpc' = "w16"
  /\ UNCHANGED <<wproc, wopen, frame_count, batch_size, frame_batches, batch_idx,
                 total_processed>>
  /\ UNCHANGED <<use_dnn, pending, running, results, artifacts, outFrames>> /\ UNCHANGED evars /\ UNCHANGED pvars /\ UNCHANGED ivars /\ UNCHANGED rvars /\ UNCHANGED dvars
  /\ UNCHANGED fvars
  /\ UNCHANGED ovars /\ Quiet

\* batch_size, frame_batches, total_processed = 0, and the loop's first test
WorkerSplit ==
  /\ wproc = "running" /\ wpc = "split"
  /\ batch_size' = BatchSize(frame_count)
  /\ frame_batches' = FrameBatches(frame_count)
  /\ total_processed' = 0
  /\ batch_idx' = 0
  /\ wpc' = LoopPc(0, FrameBatches(frame_count))
  /\ UNCHANGED <<wproc, wopen, frame_count>>
  /\ UNCHANGED tvars /\ UNCHANGED evars /\ UNCHANGED pvars /\ UNCHANGED ivars /\ UNCHANGED rvars /\ UNCHANGED dvars
  /\ UNCHANGED fvars
  /\ UNCHANGED ovars /\ Quiet

\* num_processes = max(1, int(num_cores * 0.8))
NumProcesses(c) == Max(1, (8 * c) \div 10)

\* the status process_frame returns: every exception raised in it is caught and
\* becomes an error result. The frame cannot be read (IOError), or models is
\* None and detect_objects subscripts it (TypeError)
TaskStatus(m, fate) ==
  IF fate = "unreadable" \/ ~m.loaded THEN "error" ELSE "success"

\* the file process_frame leaves in the frames directory: cv2.imwrite is its
\* last statement before the return of a success
TaskFile(m, fate) ==
  IF TaskStatus(m, fate) = "error" \/ fate = "unwritten" THEN "none"
  ELSE IF fate = "undecodable" THEN "undecodable"
  ELSE "ok"

\* no frame has a result, or a file
NoFiles == [j \in {} |-> ""]

\* f with the value v at index i
Put(f, i, v) == [j \in DOMAIN f \cup {i} |-> IF j = i THEN v ELSE f[j]]

\* FrameTaskStart with a slip: the pool takes any frame not yet processed, of
\* this batch or of a later one
FrameTaskStart_AnyBatch ==
  /\ wproc = "running" /\ wpc = "pool"
  /\ Cardinality(running) < NumProcesses(num_cores)
  /\ \E i \in 0..(frame_count - 1) :
       /\ i \notin running /\ i \notin DOMAIN results
       /\ pending' = pending \ {i}
       /\ running' = running \cup {i}
  /\ UNCHANGED <<wproc, wpc, wopen, frame_count, batch_size, frame_batches, batch_idx,
                 total_processed>>
  /\ UNCHANGED <<use_dnn, models, results, artifacts, outFrames>> /\ UNCHANGED evars /\ UNCHANGED pvars /\ UNCHANGED ivars /\ UNCHANGED rvars /\ UNCHANGED dvars
  /\ UNCHANGED fvars
  /\ UNCHANGED ovars /\ Quiet

\* pool.map: a process of the pool takes a frame of process_args that was not
\* handed out yet and calls process_frame; at most num_processes of them run at
\* a time
FrameTaskStart ==
  /\ wproc = "running" /\ wpc = "pool"
  /\ Cardinality(running) < NumProcesses(num_cores)
  /\ \E i \in pending :
       /\ pending' = pending \ {i}
       /\ running' = running \cup {i}
  /\ UNCHANGED <<wproc, wpc, wopen, frame_count, batch_size, frame_batches, batch_idx,
                 total_processed>>
  /\ UNCHANGED <<use_dnn, models, results, artifacts, outFrames>> /\ UNCHANGED evars /\ UNCHANGED pvars /\ UNCHANGED ivars /\ UNCHANGED rvars /\ UNCHANGED dvars
  /\ UNCHANGED fvars
  /\ UNCHANGED ovars /\ Quiet

\* FrameTaskReturn with a slip: a frame whose task failed ends process_video
FrameTaskReturn_ErrorAborts ==
  /\ wproc = "running" /\ wpc = "pool"
  /\ \E i \in running : \E fate \in faults :
       /\ running' = running \ {i}
       /\ results' = Put(results, i, TaskStatus(models, fate))
       /\ artifacts' = IF TaskFile(models, fate) = "none" THEN artifacts
                       ELSE Put(artifacts, i, TaskFile(models, fate))
       /\ wpc' = IF TaskStatus(models, fate) = "error" THEN "werr" ELSE wpc
  /\ UNCHANGED <<wproc, wopen, frame_count, batch_size, frame_batches, batch_idx,
                 total_processed>>
  /\ UNCHANGED <<use_dnn, models, pending, outFrames>> /\ UNCHANGED evars /\ UNCHANGED pvars /\ UNCHANGED ivars /\ UNCHANGED rvars /\ UNCHANGED dvars
  /\ UNCHANGED fvars
  /\ UNCHANGED ovars /\ Quiet

\* process_frame returns its result to pool.map
FrameTaskReturn ==
  /\ wproc = "running" /\ wpc = "pool"
  /\ \E i \in running : \E fate \in faults :
       /\ running' = running \ {i}
       /\ results' = Put(results, i, TaskStatus(models, fate))
       /\ artifacts' = IF TaskFile(models, fate) = "none" THEN artifacts
                       ELSE Put(artifacts, i, TaskFile(models, fate))
  /\ UNCHANGED <<wproc, wpc, wopen, frame_count, batch_size, frame_batches, batch_idx,
                 total_processed>>
  /\ UNCHANGED <<use_dnn, models, pending, outFrames>> /\ UNCHANGED evars /\ UNCHANGED pvars /\ UNCHANGED ivars /\ UNCHANGED rvars /\ UNCHANGED dvars
  /\ UNCHANGED fvars
  /\ UNCHANGED ovars /\ Quiet

\* pool.map(process_frame, process_args) returns once every frame of the batch
\* has its result (frame errors are results, not exceptions), and
\* total_processed += len(batch); or the pool raises and is terminated
WorkerPool ==
  /\ wproc = "running" /\ wpc = "pool"
  /\ \/ /\ pending = {} /\ running = {}
        /\ total_processed' = total_processed + frame_batches[batch_idx + 1]
        /\ wpc' = "wmetrics"
        /\ UNCHANGED <<pending, running>>
     \/ /\ total_processed' = total_processed
        /\ wpc' = "werr"
        /\ pending' = {} /\ running' = {}
  /\ UNCHANGED <<wproc, wopen, frame_count, batch_size, frame_batches, batch_idx>>
  /\ UNCHANGED <<use_dnn, models, results, artifacts, outFrames>> /\ UNCHANGED evars /\ UNCHANGED pvars /\ UNCHANGED ivars /\ UNCHANGED rvars /\ UNCHANGED dvars
  /\ UNCHANGED fvars
  /\ UNCHANGED ovars /\ Quiet

\* Assemble with a slip: a missing frame file is skipped
RECURSIVE Assemble_SkipMissing(_, _, _)
Assemble_SkipMissing(i, n, files) ==
  IF i >= n THEN <<>>
  ELSE (IF i \in DOMAIN files /\ files[i] = "ok" THEN <<i>> ELSE <<>>)
         \o Assemble_SkipMissing(i + 1, n, files)

\* the loop over range(frame_count) of the assembly, from index i on: a frame
\* file that exists is read and written if it decodes, and skipped if it does
\* not; a blank frame is written for a file that does not exist
RECURSIVE Assemble(_, _, _)
Assemble(i, n, files) ==
  IF i >= n THEN <<>>
  ELSE (IF i \in DOMAIN files
          THEN (IF files[i] = "ok" THEN <<i>> ELSE <<>>)
          ELSE <<Blank>>) \o Assemble(i + 1, n, files)

\* the VideoWriter, the ordered pass over the frame files, release and rmtree;
\* the writer may fail to open its file without raising; or an exception
WorkerAssemble ==
  /\ wproc = "running" /\ wpc = "assemble"
  /\ \/ /\ outputExists' \in {outputExists, TRUE}
        /\ outFrames' = Assemble(0, frame_count, artifacts)
        /\ artifacts' = NoFiles
        /\ wpc' = "w100"
     \/ /\ outputExists' = outputExists
        /\ UNCHANGED <<outFrames, artifacts>>
        /\ wpc' = "werr"
  /\ UNCHANGED <<statusFile, hist, inputExists>>
  /\ UNCHANGED <<wproc, wopen, frame_count, batch_size, frame_batches, batch_idx, total_processed>>
  /\ UNCHANGED <<use_dnn, models, pending, running, results>> /\ UNCHANGED evars /\ UNCHANGED pvars /\ UNCHANGED ivars /\ UNCHANGED rvars /\ UNCHANGED dvars
  /\ UNCHANGED ovars /\ Quiet

\* the worker process dies (killed from outside, out of memory, ...)
WorkerCrash ==
  /\ wproc = "running"
  /\ wproc' = "dead"
  /\ wopen' = FALSE
  /\ UNCHANGED <<wpc, frame_count, batch_size, frame_batches, batch_idx, total_processed>>
  /\ UNCHANGED tvars /\ UNCHANGED evars /\ UNCHANGED pvars /\ UNCHANGED ivars /\ UNCHANGED rvars /\ UNCHANGED dvars
  /\ UNCHANGED fvars
  /\ UNCHANGED ovars /\ Quiet

(* ---------------------------- the orchestrator ------------------------ *)
\* processing_jobs[job_id]. progress and message are read only through
\* job.get('progress', 0) and job.get('message', ''), so a missing key is modelled
\* by its default.
Job(s, p, m, pid, e) ==
  [status |-> s, progress |-> p, message |-> m, worker_pid |-> pid, end_time |-> e]
NoJob == Job("", 0, "", FALSE, FALSE)

\* upload_video: a rejected request; or the file is saved, the job registered
\* and the worker (with --use_dnn if the form has use_dnn) and the monitor thread
\* started; or Popen raises after the job was registered
UploadVideo ==
  /\ ~inputExists
  /\ \/ /\ resp' = Resp("upload", 400, "", "", 0, "")
        /\ UNCHANGED <<inputExists, registered, job, monPc, wproc, wpc>>
     \/ /\ inputExists' = TRUE
        /\ registered' = TRUE
        /\ job' = Job("processing", 0, "", TRUE, FALSE)
        /\ wproc' = "running"
        /\ wpc' = "w5"
        /\ monPc' = "poll"
        /\ resp' = Resp("upload", 200, "", "", 0, "")
     \/ /\ inputExists' = TRUE
        /\ registered' = TRUE
        /\ job' = Job("uploading", 0, "", FALSE, FALSE)
        /\ resp' = Resp("upload", 500, "", "", 0, "")
        /\ UNCHANGED <<monPc, wproc, wpc>>
  /\ UNCHANGED <<statusFile, hist, outputExists>>
  /\ UNCHANGED <<wopen, frame_count, batch_size, frame_batches, batch_idx, total_processed>>
  /\ UNCHANGED tvars
  /\ UNCHANGED <<cancelPc, cancels, restarts>>
  /\ monRead' = "none"
  /\ UNCHANGED evars /\ UNCHANGED pvars /\ UNCHANGED ivars /\ UNCHANGED rvars /\ UNCHANGED dvars

\* MonitorPoll with a slip: a status file without valid JSON ends the job as an error
MonitorPoll_CorruptFatal ==
  /\ monPc = "poll" /\ registered
  /\ \/ /\ statusFile.kind = "absent"
        /\ monRead' = "absent"
        /\ UNCHANGED <<job, monPc>>
     \/ /\ statusFile.kind = "partial"
        /\ monRead' = "corrupt"
        /\ job' = [job EXCEPT !.status = "error"]
        /\ monPc' = "cleanup"
     \/ /\ statusFile.kind = "json"
        /\ monRead' = "json"
        /\ job' = [job EXCEPT !.status = statusFile.status,
                              !.progress = statusFile.progress,
                              !.message = statusFile.message,
                              !.end_time = job.end_time \/ statusFile.status = "completed"]
        /\ monPc' = IF statusFile.status \in {"completed", "error"} THEN "cleanup" ELSE "poll"
  /\ UNCHANGED <<registered, cancelPc, cancels, restarts>>
  /\ resp' = NoResp
  /\ UNCHANGED fvars
  /\ UNCHANGED wvars
  /\ UNCHANGED evars /\ UNCHANGED pvars /\ UNCHANGED ivars /\ UNCHANGED rvars /\ UNCHANGED dvars

\* MonitorPoll with a slip: a cancelled snapshot ends the loop as completed and error do
MonitorPoll_StopOnCancelled ==
  /\ monPc = "poll" /\ registered
  /\ \/ /\ statusFile.kind = "absent"
        /\ monRead' = "absent"
        /\ UNCHANGED <<job, monPc>>
     \/ /\ statusFile.kind = "partial"
        /\ monRead' = "corrupt"
        /\ UNCHANGED <<job, monPc>>
     \/ /\ statusFile.kind = "json"
        /\ monRead' = "json"
        /\ job' = [job EXCEPT !.status = statusFile.status,
                              !.progress = statusFile.progress,
                              !.message = statusFile.message,
                              !.end_time = job.end_time \/ statusFile.status = "completed"]
        /\ monPc' = IF statusFile.status \in Terminal THEN "cleanup" ELSE "poll"
  /\ UNCHANGED <<registered, cancelPc, cancels, restarts>>
  /\ resp' = NoResp
  /\ UNCHANGED fvars
  /\ UNCHANGED wvars
  /\ UNCHANGED evars /\ UNCHANGED pvars /\ UNCHANGED ivars /\ UNCHANGED rvars /\ UNCHANGED dvars

\* one pass of the loop of monitor_worker_status
MonitorPoll ==
  /\ monPc = "poll" /\ registered
  /\ \/ /\ statusFile.kind = "absent"
        /\ monRead' = "absent"
        /\ UNCHANGED <<job, monPc>>
     \/ /\ statusFile.kind = "partial"
        /\ monRead' = "corrupt"
        /\ UNCHANGED <<job, monPc>>
     \/ /\ statusFile.kind = "json"
        /\ monRead' = "json"
        /\ job' = [job EXCEPT !.status = statusFile.status,
                              !.progress = statusFile.progress,
                              !.message = statusFile.message,
                              !.end_time = job.end_time \/ statusFile.status = "completed"]
        /\ monPc' = IF statusFile.status \in {"completed", "error"} THEN "cleanup" ELSE "poll"
  /\ UNCHANGED <<registered, cancelPc, cancels, restarts>>
  /\ resp' = NoResp
  /\ UNCHANGED fvars
  /\ UNCHANGED wvars
  /\ UNCHANGED evars /\ UNCHANGED pvars /\ UNCHANGED ivars /\ UNCHANGED rvars /\ UNCHANGED dvars

\* the end of monitor_worker_status: os.remove(status_file) if it exists
MonitorCleanup ==
  /\ monPc = "cleanup"
  /\ monPc' = "done"
  /\ statusFile' = Absent
  /\ UNCHANGED <<hist, inputExists, outputExists>>
  /\ UNCHANGED <<registered, job, cancelPc, cancels, restarts>>
  /\ Quiet
  /\ UNCHANGED wvars
  /\ UNCHANGED evars /\ UNCHANGED pvars /\ UNCHANGED ivars /\ UNCHANGED rvars /\ UNCHANGED dvars

\* DownloadVideo without the test of the in-memory status
DownloadVideo_FileOnly ==
  /\ resp' =
       IF ~registered THEN Resp("download", 404, "", "", 0, "")
       ELSE IF statusFile.kind = "json" /\ statusFile.status # "completed"
         THEN Resp("download", 400, "file", "", 0, "")
       ELSE IF ~outputExists THEN Resp("download", 404, "output", "", 0, "")
       ELSE Resp("download", 200, "send_file", "", 0, "")
  /\ UNCHANGED <<registered, job, monPc, cancelPc, cancels, restarts>>
  /\ monRead' = "none"
  /\ UNCHANGED fvars
  /\ UNCHANGED wvars
  /\ UNCHANGED evars /\ UNCHANGED pvars /\ UNCHANGED ivars /\ UNCHANGED rvars /\ UNCHANGED dvars

\* download_video
DownloadVideo ==
  /\ resp' =
       IF ~registered THEN Resp("download", 404, "", "", 0, "")
       ELSE IF statusFile.kind = "json" /\ statusFile.status # "completed"
         THEN Resp("download", 400, "file", "", 0, "")
       ELSE IF job.status # "completed" THEN Resp("download", 400, "memory", "", 0, "")
       ELSE IF ~outputExists THEN Resp("download", 404, "output", "", 0, "")
       ELSE Resp("download", 200, "send_file", "", 0, "")
  /\ UNCHANGED <<registered, job, monPc, cancelPc, cancels, restarts>>
  /\ monRead' = "none"
  /\ UNCHANGED fvars
  /\ UNCHANGED wvars
  /\ UNCHANGED evars /\ UNCHANGED pvars /\ UNCHANGED ivars /\ UNCHANGED rvars /\ UNCHANGED dvars

\* get_job_status
GetJobStatus ==
  /\ resp' =
       IF ~registered THEN Resp("status", 404, "", "", 0, "")
       ELSE IF statusFile.kind = "json"
         THEN Resp("status", 200, "file", statusFile.status, statusFile.progress,
                   statusFile.message)
       ELSE Resp("status", 200, IF statusFile.kind = "partial" THEN "memory_corrupt" ELSE "memory",
                 job.status, job.progress, job.message)
  /\ UNCHANGED <<registered, job, monPc, cancelPc, cancels, restarts>>
  /\ monRead' = "none"
  /\ UNCHANGED fvars
  /\ UNCHANGED wvars
  /\ UNCHANGED evars /\ UNCHANGED pvars /\ UNCHANGED ivars /\ UNCHANGED rvars /\ UNCHANGED dvars

\* cancel_processing up to open(status_file, 'w'): SIGTERM (and terminate, wait,
\* kill) to the pid the job records, the in-memory status, and the truncation
CancelProcessing ==
  /\ cancelPc = "idle"
  /\ \/ /\ ~registered
        /\ resp' = Resp("cancel", 404, "", "", 0, "")
        /\ UNCHANGED <<statusFile, wproc, wopen, job, cancelPc, cancels>>
     \/ /\ registered /\ cancels < MaxCancels
        /\ cancels' = cancels + 1
        /\ IF job.worker_pid /\ wproc = "running"
             THEN wproc' = "dead" /\ wopen' = FALSE
             ELSE UNCHANGED <<wproc, wopen>>
        /\ job' = [job EXCEPT !.status = "cancelled"]
        /\ statusFile' = Partial
        /\ cancelPc' = "dump"
        /\ resp' = NoResp
  /\ UNCHANGED <<hist, inputExists, outputExists>>
  /\ UNCHANGED <<wpc, frame_count, batch_size, frame_batches, batch_idx, total_processed>>
  /\ UNCHANGED tvars
  /\ UNCHANGED <<registered, monPc, restarts>>
  /\ monRead' = "none"
  /\ UNCHANGED evars /\ UNCHANGED pvars /\ UNCHANGED ivars /\ UNCHANGED rvars /\ UNCHANGED dvars

\* the snapshot cancel_processing writes
CancelSnap == Snap(0, "Job cancelled by user", "cancelled", FALSE)

\* cancel_processing from json.dump to its return
CancelDump ==
  /\ cancelPc = "dump"
  /\ cancelPc' = "idle"
  /\ statusFile' \in Dumped(statusFile, CancelSnap)
  /\ hist' = [hist EXCEPT !.by = "cancel", !.last = CancelSnap, !.terminal = TRUE,
                          !.marker = TRUE]
  /\ resp' = Resp("cancel", 200, "", "", 0, "")
  /\ UNCHANGED <<inputExists, outputExists>>
  /\ UNCHANGED <<registered, job, monPc, cancels, restarts>>
  /\ monRead' = "none"
  /\ UNCHANGED wvars
  /\ UNCHANGED evars /\ UNCHANGED pvars /\ UNCHANGED ivars /\ UNCHANGED rvars /\ UNCHANGED dvars

\* index with ?job_id=: answers from the registry, or from the status file, and
\* then re-registers a job whose snapshot says processing or uploading and starts
\* a monitor thread for it
Index ==
  /\ \/ /\ registered
        /\ resp' = Resp("index", 200, "memory", job.status, 0, "")
        /\ UNCHANGED <<registered, job, monPc>>
     \/ /\ ~registered /\ statusFile.kind # "json"
        /\ resp' = Resp("index", 200, "", "", 0, "")
        /\ UNCHANGED <<registered, job, monPc>>
     \/ /\ ~registered /\ statusFile.kind = "json"
        /\ resp' = Resp("index", 200, "file", statusFile.status, 0, "")
        /\ IF statusFile.status \in {"processing", "uploading"} /\ inputExists
             THEN /\ registered' = TRUE
                  /\ job' = Job(statusFile.status, statusFile.progress, statusFile.message,
                                FALSE, FALSE)
                  /\ monPc' = "poll"
             ELSE UNCHANGED <<registered, job, monPc>>
  /\ UNCHANGED <<cancelPc, cancels, restarts>>
  /\ monRead' = "none"
  /\ UNCHANGED fvars
  /\ UNCHANGED wvars
  /\ UNCHANGED evars /\ UNCHANGED pvars /\ UNCHANGED ivars /\ UNCHANGED rvars /\ UNCHANGED dvars

\* the index requests followed step by step
Requests == 1..MaxIndexRequests

\* index with ?job_id=, up to its decision: the job is in the registry; or it
\* is not, and the status file is missing or unreadable, or status_data is
\* read from it and says processing or uploading while the input file exists
IndexLookup(r) ==
  /\ indexPc[r] = "idle"
  /\ IF ~registered /\ statusFile.kind = "json"
        /\ statusFile.status \in {"processing", "uploading"} /\ inputExists
       THEN /\ indexPc' = [indexPc EXCEPT ![r] = "register"]
            /\ indexRead' = [indexRead EXCEPT ![r] = statusFile]
       ELSE /\ indexPc' = [indexPc EXCEPT ![r] = "done"]
            /\ indexRead' = indexRead
  /\ UNCHANGED monitors
  /\ UNCHANGED <<fvars, wvars, ovars, evars, pvars, ivars, dvars>> /\ Quiet

\* index from processing_jobs[job_id] = {...} on: the job is registered from
\* status_data and a monitor thread is started for it
IndexRegister(r) ==
  /\ indexPc[r] = "register"
  /\ registered' = TRUE
  /\ job' = Job(indexRead[r].status, indexRead[r].progress, indexRead[r].message,
                FALSE, FALSE)
  /\ monPc' = "poll"
  /\ monitors' = monitors + 1
  /\ indexPc' = [indexPc EXCEPT ![r] = "done"]
  /\ UNCHANGED indexRead
  /\ UNCHANGED <<cancelPc, cancels, restarts>>
  /\ UNCHANGED <<fvars, wvars, evars, pvars, ivars, dvars>> /\ Quiet

\* the orchestrator process ends and starts again: processing_jobs = {} and no
\* threads; the files and the worker process stay
OrchestratorRestart ==
  /\ inputExists /\ restarts < MaxRestarts
  /\ restarts' = restarts + 1
  /\ registered' = FALSE
  /\ job' = NoJob
  /\ monPc' = "none"
  /\ cancelPc' = "idle"
  /\ Quiet
  /\ UNCHANGED <<cancels>>
  /\ UNCHANGED fvars
  /\ UNCHANGED wvars
  /\ UNCHANGED evars /\ UNCHANGED pvars /\ UNCHANGED ivars /\ UNCHANGED rvars /\ UNCHANGED dvars

(* --------------------------- the frame pipeline ----------------------- *)
\* compute_iou(box1, box2), as the fraction num/den: 0.0 if the boxes do not
\* intersect or the union has no area
ComputeIou(box1, box2) ==
  LET xx1 == Max(box1[1], box2[1])
      yy1 == Max(box1[2], box2[2])
      xx2 == Min(box1[1] + box1[3], box2[1] + box2[3])
      yy2 == Min(box1[2] + box1[4], box2[2] + box2[4])
      intersection_area == (xx2 - xx1) * (yy2 - yy1)
      union_area == box1[3] * box1[4] + box2[3] * box2[4] - intersection_area
  IN IF xx2 < xx1 \/ yy2 < yy1 THEN [num |-> 0, den |-> 1]
     ELSE IF union_area > 0 THEN [num |-> intersection_area, den |-> union_area]
     ELSE [num |-> 0, den |-> 1]

\* iou > 0.3
OverThreshold(iou) == 10 * iou.num > 3 * iou.den

\* the box that includes both detections: merged_x, merged_y, merged_w, merged_h
Enclose(b1, b2) ==
  <<Min(b1[1], b2[1]), Min(b1[2], b2[2]),
    Max(b1[1] + b1[3], b2[1] + b2[3]) - Min(b1[1], b2[1]),
    Max(b1[2] + b1[4], b2[2] + b2[4]) - Min(b1[2], b2[2])>>

\* the inner loop of the merge for the seed i, from index j on: merged_box is
\* set to the box that includes detection1 (the seed) and detection2 at every
\* detection2 that is not used and whose IoU with the seed is over the threshold
RECURSIVE Absorb(_, _, _, _, _)
Absorb(i, j, dets, used, cluster) ==
  IF j > Len(dets) THEN [cluster |-> cluster, used |-> used]
  ELSE IF j \in used \/ i = j THEN Absorb(i, j + 1, dets, used, cluster)
  ELSE IF OverThreshold(ComputeIou(dets[i], dets[j]))
    THEN Absorb(i, j + 1, dets, used \cup {j},
                [box |-> Enclose(dets[i], dets[j]), seed |-> i,
                 absorbed |-> cluster.absorbed \cup {j}])
  ELSE Absorb(i, j + 1, dets, used, cluster)

\* MergeFrom with a slip: the detections a seed absorbed are not kept as used
RECURSIVE MergeFrom_ForgetsUsed(_, _, _)
MergeFrom_ForgetsUsed(i, dets, used) ==
  IF i > Len(dets) THEN <<>>
  ELSE IF i \in used THEN MergeFrom_ForgetsUsed(i + 1, dets, used)
  ELSE LET a == Absorb(i, 1, dets, used \cup {i},
                       [box |-> dets[i], seed |-> i, absorbed |-> {}])
       IN <<a.cluster>> \o MergeFrom_ForgetsUsed(i + 1, dets, used \cup {i})

\* the outer loop of the merge, from index i on: merged_detections
RECURSIVE MergeFrom(_, _, _)
MergeFrom(i, dets, used) ==
  IF i > Len(dets) THEN <<>>
  ELSE IF i \in used THEN MergeFrom(i + 1, dets, used)
  ELSE LET a == Absorb(i, 1, dets, used \cup {i},
                       [box |-> dets[i], seed |-> i, absorbed |-> {}])
       IN <<a.cluster>> \o MergeFrom(i + 1, dets, a.used)

\* the merge at the end of detect_objects
MergeDetections ==
  /\ ppc = "merge"
  /\ merged_detections' = MergeFrom(1, all_detections, {})
  /\ ppc' = "merged"
  /\ UNCHANGED all_detections
  /\ UNCHANGED <<detections, pad_w, original_width, adjusted>>
  /\ UNCHANGED <<frames_per_second, overall_fps, remaining_frames, weighted_fps,
                 estimated_remaining_time, time_msg>>
  /\ UNCHANGED <<fvars, wvars, ovars, evars, ivars, rvars, dvars, monRead, resp>>

\* AdjustFrom with a slip: the width is not cut at the right edge of the frame
RECURSIVE AdjustFrom_NoClip(_, _, _, _)
AdjustFrom_NoClip(i, dets, pad, width) ==
  IF i > Len(dets) THEN <<>>
  ELSE LET x == dets[i][1] - pad
           w == dets[i][3]
       IN (IF x + w < 0 \/ x > width THEN <<>>
           ELSE <<<<Max(0, x), dets[i][2], w, dets[i][4]>>>>)
            \o AdjustFrom_NoClip(i + 1, dets, pad, width)

\* the loop of adjust_coords_for_wrapped_detections, from index i on: x -= pad_w;
\* a box wholly outside the frame is dropped; x = max(0, x);
\* w = min(original_width - x, w)
RECURSIVE AdjustFrom(_, _, _, _)
AdjustFrom(i, dets, pad, width) ==
  IF i > Len(dets) THEN <<>>
  ELSE LET x == dets[i][1] - pad
           w == dets[i][3]
       IN (IF x + w < 0 \/ x > width THEN <<>>
           ELSE <<<<Max(0, x), dets[i][2], Min(width - Max(0, x), w), dets[i][4]>>>>)
            \o AdjustFrom(i + 1, dets, pad, width)

\* adjust_coords_for_wrapped_detections(detections, pad_w, original_width)
AdjustCoords ==
  /\ ppc = "adjust"
  /\ adjusted' = AdjustFrom(1, detections, pad_w, original_width)
  /\ ppc' = "adjusted"
  /\ UNCHANGED <<detections, pad_w, original_width>>
  /\ UNCHANGED <<all_detections, merged_detections>>
  /\ UNCHANGED <<frames_per_second, overall_fps, remaining_frames, weighted_fps,
                 estimated_remaining_time, time_msg>>
  /\ UNCHANGED <<fvars, wvars, ovars, evars, ivars, rvars, dvars, monRead, resp>>

\* WeightedFps with a slip: the weights of the two rates are exchanged
WeightedFps_Exchanged(batch, overall) ==
  IF overall > 0 THEN batch + 3 * overall ELSE 4 * batch

\* weighted_fps = (0.75 * frames_per_second) + (0.25 * overall_fps) if
\* overall_fps > 0 else frames_per_second, in quarters of a frame/s
WeightedFps(batch, overall) ==
  IF overall > 0 THEN 3 * batch + overall ELSE 4 * batch

\* estimated_remaining_time = remaining_frames / weighted_fps if weighted_fps > 0
\* else 0, in whole milliseconds, for weighted in quarters of a frame/s
RemainingTime(left, weighted) ==
  IF weighted > 0 THEN (4000 * left) \div weighted ELSE 0

\* "M min S sec remaining" of an estimate over 60 s, "S sec remaining" otherwise
Message(form, m, sec) == [form |-> form, min |-> m, sec |-> sec]

\* time_msg, for left frames at a weighted rate in quarters of a frame/s: the
\* estimate is 4 * left / weighted seconds, and 0 when the rate is not positive
TimeMsg(left, weighted) ==
  IF weighted > 0 /\ 4 * left > 60 * weighted
    THEN Message("min_sec", (4 * left) \div (60 * weighted), ((4 * left) \div weighted) % 60)
    ELSE Message("sec", 0, IF weighted > 0 THEN (4 * left) \div weighted ELSE 0)

\* the time estimate process_video makes after a batch
EstimateRemaining ==
  /\ ppc = "estimate"
  /\ weighted_fps' = WeightedFps(frames_per_second, overall_fps)
  /\ estimated_remaining_time' =
       RemainingTime(remaining_frames, WeightedFps(frames_per_second, overall_fps))
  /\ time_msg' = TimeMsg(remaining_frames, WeightedFps(frames_per_second, overall_fps))
  /\ ppc' = "estimated"
  /\ UNCHANGED <<frames_per_second, overall_fps, remaining_frames>>
  /\ UNCHANGED <<all_detections, merged_detections>>
  /\ UNCHANGED <<detections, pad_w, original_width, adjusted>>
  /\ UNCHANGED <<fvars, wvars, ovars, evars, ivars, rvars, dvars, monRead, resp>>

(* --------------------------- the interactive mode --------------------- *)
\* run_detection with a slip: an empty tracker list does not call for detection
RunDetection_IgnoresEmptyList(support, index, interval, list) ==
  IF support THEN (index % interval = 1) \/ (index = 1) ELSE TRUE

\* run_detection = (frame_count % detection_interval == 1) or (frame_count == 1)
\* or (len(trackers) == 0) if has_tracking_support, else True
RunDetection(support, index, interval, list) ==
  IF support
    THEN (index % interval = 1) \/ (index = 1) \/ (Len(list) = 0)
    ELSE TRUE

\* update_job_progress: progress, message and, as a step is always given, the
\* status of a job that is registered; nothing for any other job_id, or none
UpdateJobProgress(j, progress, message, step) ==
  IF registered
    THEN [j EXCEPT !.progress = progress, !.message = message, !.status = step]
    ELSE j

\* min(95, 15 + int(80 * frame_count / total_frames))
FrameProgress(index, total) == Min(95, 15 + ((80 * index) \div total))

\* the step the progress of a frame is reported with
FrameStep(index, total) == IF index > total \div 2 THEN "step-blur" ELSE "step-detect"

\* the frame is due for a progress update by its number: the first frame,
\* every progress_interval-th and every 30th
UpdateDue(index, total) ==
  index = 1 \/ index % Max(1, total \div 20) = 0 \/ index % 30 = 0

\* has_tracking_support: tracking is not switched off by a parameter and
\* create_tracker returns a tracker; process_every and detection_interval; the
\* empty tracker lists; and the progress update that ends the preparation
SetupTracking ==
  /\ ipc = "setup"
  /\ job' = UpdateJobProgress(job, 15, "Detection models loaded", "step-detect")
  /\ has_tracking_support' =
       (~skip_tracking /\ ~disable_legacy_tracking /\ tracker_backend)
  /\ detection_interval' =
       IF ~skip_tracking /\ ~disable_legacy_tracking /\ tracker_backend THEN 5 ELSE 1
  /\ trackers' = <<>> /\ tracked_objects' = <<>>
  /\ ipc' = "check"
  /\ UNCHANGED <<skip_tracking, disable_legacy_tracking, tracker_backend, total_frames,
                 frame_index, run_detection, detected, lost, blurred, seen_cancelled>>
  /\ UNCHANGED <<registered, monPc, cancelPc, cancels, restarts>>
  /\ UNCHANGED <<fvars, wvars, evars, pvars, rvars, dvars>> /\ Quiet

\* the head of the frame loop: the test whether the job was cancelled, which
\* ends the loop
CheckCancelled ==
  /\ ipc = "check"
  /\ IF registered /\ job.status = "cancelled"
       THEN ipc' = "finalize" /\ seen_cancelled' = TRUE
       ELSE ipc' = "read" /\ seen_cancelled' = seen_cancelled
  /\ UNCHANGED <<skip_tracking, disable_legacy_tracking, tracker_backend,
                 has_tracking_support, detection_interval, total_frames, frame_index,
                 trackers, tracked_objects, lost, blurred, run_detection, detected>>
  /\ UNCHANGED <<fvars, wvars, ovars, evars, pvars, rvars, dvars>> /\ Quiet

\* cap.read() ends the loop or gives the next frame; frame_count += 1, the
\* progress update of a frame that is due for one by its number or by the 30 s
\* since the last one, and the decision whether the detection runs
ReadFrame ==
  /\ ipc = "read"
  /\ IF frame_index < total_frames
       THEN /\ frame_index' = frame_index + 1
            /\ \E late \in BOOLEAN :
                 job' = IF late \/ UpdateDue(frame_index + 1, total_frames)
                          THEN UpdateJobProgress(job,
                                 FrameProgress(frame_index + 1, total_frames),
                                 "Processing frame",
                                 FrameStep(frame_index + 1, total_frames))
                          ELSE job
            /\ run_detection' = RunDetection(has_tracking_support, frame_index + 1,
                                             detection_interval, trackers)
            /\ ipc' = "frame"
       ELSE /\ UNCHANGED <<frame_index, run_detection, job>>
            /\ ipc' = "finalize"
  /\ UNCHANGED <<skip_tracking, disable_legacy_tracking, tracker_backend,
                 has_tracking_support, detection_interval, total_frames, trackers,
                 tracked_objects, lost, blurred, detected, seen_cancelled>>
  /\ UNCHANGED <<registered, monPc, cancelPc, cancels, restarts>>
  /\ UNCHANGED <<fvars, wvars, evars, pvars, rvars, dvars>> /\ Quiet

\* what tracker.update gives for each tracker of the list: a box inside the
\* frame, a failure (or an exception), or a box that leaves the frame
Updates(list) == [1..Len(list) -> {"ok", "failed", "outside"}]

\* the boxes the update loop appends to all_detections, in the order of the
\* trackers: one for each tracker whose update gave a box inside the frame
RECURSIVE Propagated(_, _)
Propagated(k, update) ==
  IF k > Len(update) THEN <<>>
  ELSE (IF update[k] = "ok" THEN <<"tracker">> ELSE <<>>) \o Propagated(k + 1, update)

\* the update loop, which runs before the detection on every frame that has
\* tracking and trackers: its boxes go to all_detections; the tracker lists
\* are left as they are
UpdateTrackers(update) ==
  IF has_tracking_support /\ Len(trackers) > 0 THEN Propagated(1, update) ELSE <<>>

\* the positions of the trackers that the update loop found lost
Lost(update) ==
  IF has_tracking_support /\ Len(trackers) > 0
    THEN {k \in 1..Len(update) : update[k] # "ok"} ELSE {}

\* the rest of the loop body: the update of the trackers; on a detection frame
\* the tracker lists are emptied, the boxes found are appended to
\* all_detections and a tracker and its box are appended for each of them for
\* which create_tracker returns a tracker and init does not raise; the boxes of
\* all_detections are blurred and the frame is written
ProcessFrame ==
  /\ ipc = "frame"
  /\ \E update \in Updates(trackers) :
       IF run_detection
         THEN /\ \E found \in 0..MaxTrackers :
                   \E n \in 0..(IF tracker_backend THEN found ELSE 0) :
                     /\ trackers' = [k \in 1..n |-> frame_index]
                     /\ tracked_objects' = [k \in 1..n |-> frame_index]
                     /\ blurred' = UpdateTrackers(update) \o [k \in 1..found |-> "detection"]
              /\ lost' = {}
              /\ detected' = detected \cup {frame_index}
         ELSE /\ blurred' = UpdateTrackers(update)
              /\ lost' = lost \cup Lost(update)
              /\ UNCHANGED <<trackers, tracked_objects, detected>>
  /\ ipc' = "check"
  /\ UNCHANGED <<skip_tracking, disable_legacy_tracking, tracker_backend,
                 has_tracking_support, detection_interval, total_frames, frame_index,
                 run_detection, seen_cancelled>>
  /\ UNCHANGED <<fvars, wvars, ovars, evars, pvars, rvars, dvars>> /\ Quiet

\* after the loop: the two progress updates that end process_video, a second
\* of sleep between them
FinalizeVideo ==
  /\ ipc \in {"finalize", "complete"}
  /\ IF ipc = "finalize"
       THEN /\ job' = UpdateJobProgress(job, 98, "Finalizing video output", "step-finalize")
            /\ ipc' = "complete"
       ELSE /\ job' = UpdateJobProgress(job, 100, "Processing complete!", "step-finalize")
            /\ ipc' = "done"
  /\ UNCHANGED <<skip_tracking, disable_legacy_tracking, tracker_backend,
                 has_tracking_support, detection_interval, total_frames, frame_index,
                 trackers, tracked_objects, lost, blurred, run_detection, detected,
                 seen_cancelled>>
  /\ UNCHANGED <<registered, monPc, cancelPc, cancels, restarts>>
  /\ UNCHANGED <<fvars, wvars, evars, pvars, rvars, dvars>> /\ Quiet

(* --------------------------- the model download ----------------------- *)
\* how one attempt ends: download_with_requests returns True, or returns False
\* (a request error, an empty file), or raises something else
Outcomes == {"ok", "failed", "raised"}

\* download_file, one round of its retry loop: the attempt, then the return of
\* True, the wait before the next attempt, the nested call for the
\* alternative url, or the return of False
DownloadAttempt ==
  /\ dpc = "loop" /\ attempt < retries
  /\ \E outcome \in Outcomes :
       /\ tried' = Append(tried, [url |-> url, outcome |-> outcome])
       /\ IF outcome = "ok"
            THEN /\ returned' = "True" /\ dpc' = "done"
                 /\ UNCHANGED <<url, retries, retry_delay, attempt, sleeps>>
            ELSE IF attempt < retries - 1
            THEN /\ sleeps' = Append(sleeps, retry_delay)
                 /\ retry_delay' = IF outcome = "failed" THEN retry_delay * 2 ELSE retry_delay
                 /\ attempt' = attempt + 1
                 /\ UNCHANGED <<dpc, url, retries, returned>>
            ELSE IF outcome = "failed" /\ alternative = "other" /\ url = "given"
            THEN /\ url' = "alternative"
                 /\ retries' = 1
                 /\ retry_delay' = 2
                 /\ attempt' = 0
                 /\ UNCHANGED <<dpc, sleeps, returned>>
            ELSE /\ returned' = "False" /\ dpc' = "done"
                 /\ UNCHANGED <<url, retries, retry_delay, attempt, sleeps>>
  /\ UNCHANGED <<alternative, asked>>
  /\ UNCHANGED <<fvars, wvars, ovars, evars, pvars, ivars, rvars, monRead, resp>>

\* download_file, past its retry loop: return False
DownloadExhausted ==
  /\ dpc = "loop" /\ attempt >= retries
  /\ returned' = "False" /\ dpc' = "done"
  /\ UNCHANGED <<url, retries, retry_delay, attempt, alternative, asked, tried, sleeps>>
  /\ UNCHANGED <<fvars, wvars, ovars, evars, pvars, ivars, rvars, monRead, resp>>

(* --------------------------- the specifications ----------------------- *)
\* no file is being downloaded
DownloadIdle ==
  /\ dpc = "none" /\ url = "given" /\ retries = 0 /\ retry_delay = 0 /\ attempt = 0
  /\ alternative = "none" /\ asked = [retries |-> 0, retry_delay |-> 0]
  /\ tried = <<>> /\ sleeps = <<>> /\ returned = "none"

\* no index request is followed step by step
ReconcileIdle ==
  /\ indexPc = [r \in Requests |-> "idle"]
  /\ indexRead = [r \in Requests |-> Absent]
  /\ monitors = 0

\* process_video of the web application is not called
InteractiveIdle ==
  /\ ipc = "none" /\ seen_cancelled = FALSE
  /\ skip_tracking = FALSE /\ disable_legacy_tracking = TRUE /\ tracker_backend = FALSE
  /\ has_tracking_support = FALSE /\ detection_interval = 1
  /\ total_frames = 0 /\ frame_index = 0
  /\ trackers = <<>> /\ run_detection = FALSE /\ detected = {}
  /\ tracked_objects = <<>> /\ lost = {} /\ blurred = <<>>

\* the variables of the merge, of the coordinate correction and of the time
\* estimate while these are not studied
MergeIdle == all_detections = <<>> /\ merged_detections = <<>>
AdjustIdle == detections = <<>> /\ pad_w = 0 /\ original_width = 1 /\ adjusted = <<>>
EstimateIdle ==
  /\ frames_per_second = 0 /\ overall_fps = 0 /\ remaining_frames = 0
  /\ weighted_fps = 0 /\ estimated_remaining_time = 0
  /\ time_msg = Message("sec", 0, 0)

\* no function of the frame pipeline is studied on its own
PureIdle ==
  ppc = "none" /\ MergeIdle /\ AdjustIdle /\ EstimateIdle /\ InteractiveIdle /\ ReconcileIdle /\ DownloadIdle

\* nothing was uploaded yet
Unstarted ==
  /\ statusFile = Absent
  /\ hist = NoHist
  /\ inputExists = FALSE
  /\ outputExists = FALSE
  /\ wproc = "notstarted"
  /\ wpc = "w5"
  /\ wopen = FALSE
  /\ frame_count = 0
  /\ batch_size = 0
  /\ frame_batches = <<>>
  /\ batch_idx = 0
  /\ total_processed = 0
  /\ registered = FALSE
  /\ job = NoJob
  /\ monPc = "none"
  /\ monRead = "none"
  /\ cancelPc = "idle"
  /\ cancels = 0
  /\ restarts = 0
  /\ resp = NoResp
  /\ use_dnn = TRUE
  /\ models = NoModels
  /\ pending = {}
  /\ running = {}
  /\ results = NoFiles
  /\ artifacts = NoFiles
  /\ outFrames = <<>>
  /\ installed = Kinds
  /\ faults = {"ok"}
  /\ num_cores = MaxCores

Init == Unstarted /\ PureIdle

Next ==
  \/ UploadVideo
  \/ WorkerOpen
  \/ WorkerDump
  \/ WorkerInfo
  \/ WorkerLoad
  \/ WorkerSplit
  \/ FrameTaskStart
  \/ FrameTaskReturn
  \/ WorkerPool
  \/ WorkerAssemble
  \/ WorkerCrash
  \/ MonitorPoll
  \/ MonitorCleanup
  \/ DownloadVideo
  \/ GetJobStatus
  \/ CancelProcessing
  \/ CancelDump
  \/ Index
  \/ OrchestratorRestart

Spec == Init /\ [][Next]_vars

\* the monitor thread, a handler that has started and a live worker process keep
\* being scheduled; requests, crashes and restarts need not happen
FairSpec ==
  /\ Spec
  /\ WF_vars(MonitorPoll)
  /\ WF_vars(MonitorCleanup)
  /\ WF_vars(CancelDump)
  /\ WF_vars(WorkerOpen \/ WorkerDump \/ WorkerInfo \/ WorkerLoad \/ WorkerSplit
               \/ FrameTaskStart \/ FrameTaskReturn \/ WorkerPool \/ WorkerAssemble)

\* the partition into batches for every frame count: the worker stands before
\* the computation of batch_size, having written its first four snapshots
SplitInit ==
  /\ statusFile = Snap(16, "Starting processing", "processing", FALSE)
  /\ hist = [NoHist EXCEPT !.by = "worker", !.last = statusFile, !.wlast = statusFile]
  /\ inputExists = TRUE
  /\ outputExists = FALSE
  /\ wproc = "running"
  /\ wpc = "split"
  /\ wopen = FALSE
  /\ frame_count \in 0..MaxSplitFrames
  /\ batch_size = 0
  /\ frame_batches = <<>>
  /\ batch_idx = 0
  /\ total_processed = 0
  /\ registered = TRUE
  /\ job = Job("processing", 0, "", TRUE, FALSE)
  /\ monPc = "poll"
  /\ monRead = "none"
  /\ cancelPc = "idle"
  /\ cancels = 0
  /\ restarts = 0
  /\ resp = NoResp
  /\ use_dnn = TRUE
  /\ models = Models(Kinds)
  /\ pending = {}
  /\ running = {}
  /\ results = NoFiles
  /\ artifacts = NoFiles
  /\ outFrames = <<>>
  /\ installed = Kinds
  /\ faults = {"ok"}
  /\ num_cores = MaxCores
  /\ PureIdle

\* the split and the writes and the assembly that follow it: the snapshot of
\* the first batch, or of the assembly when there is no batch
BatchNext == WorkerSplit \/ WorkerOpen \/ WorkerDump \/ WorkerAssemble

BatchSpec == SplitInit /\ [][BatchNext]_vars

\* the worker alone, from its start by upload_video, on every host: with and
\* without --use_dnn, with any model files installed, with and without frame
\* tasks that fail
WorkerInit ==
  /\ statusFile = Absent
  /\ hist = NoHist
  /\ inputExists = TRUE
  /\ outputExists = FALSE
  /\ wproc = "running"
  /\ wpc = "w5"
  /\ wopen = FALSE
  /\ frame_count = 0
  /\ batch_size = 0
  /\ frame_batches = <<>>
  /\ batch_idx = 0
  /\ total_processed = 0
  /\ registered = TRUE
  /\ job = Job("processing", 0, "", TRUE, FALSE)
  /\ monPc = "poll"
  /\ monRead = "none"
  /\ cancelPc = "idle"
  /\ cancels = 0
  /\ restarts = 0
  /\ resp = NoResp
  /\ use_dnn \in BOOLEAN
  /\ models = NoModels
  /\ pending = {}
  /\ running = {}
  /\ results = NoFiles
  /\ artifacts = NoFiles
  /\ outFrames = <<>>
  /\ installed \in SUBSET Kinds
  /\ faults \in {{"ok"}, Fates}
  /\ num_cores = MaxCores
  /\ PureIdle

WorkerNext ==
  \/ WorkerOpen
  \/ WorkerDump
  \/ WorkerInfo
  \/ WorkerLoad
  \/ WorkerSplit
  \/ FrameTaskStart
  \/ FrameTaskReturn
  \/ WorkerPool
  \/ WorkerAssemble
  \/ WorkerCrash

WorkerSpec == WorkerInit /\ [][WorkerNext]_vars

\* the batch loop on videos whose batches hold more than one frame (20 frames
\* and more), on hosts of every number of cores: the worker stands before the
\* computation of batch_size
PoolInit ==
  /\ statusFile = Snap(16, "Starting processing", "processing", FALSE)
  /\ hist = [NoHist EXCEPT !.by = "worker", !.last = statusFile, !.wlast = statusFile]
  /\ inputExists = TRUE
  /\ outputExists = FALSE
  /\ wproc = "running"
  /\ wpc = "split"
  /\ wopen = FALSE
  /\ frame_count \in 20..MaxPoolFrames
  /\ batch_size = 0
  /\ frame_batches = <<>>
  /\ batch_idx = 0
  /\ total_processed = 0
  /\ registered = TRUE
  /\ job = Job("processing", 0, "", TRUE, FALSE)
  /\ monPc = "poll"
  /\ monRead = "none"
  /\ cancelPc = "idle"
  /\ cancels = 0
  /\ restarts = 0
  /\ resp = NoResp
  /\ use_dnn = TRUE
  /\ models = Models(Kinds)
  /\ pending = {}
  /\ running = {}
  /\ results = NoFiles
  /\ artifacts = NoFiles
  /\ outFrames = <<>>
  /\ installed = Kinds
  /\ faults = {"ok"}
  /\ num_cores \in 1..MaxCores
  /\ PureIdle

PoolNext ==
  \/ WorkerOpen
  \/ WorkerDump
  \/ WorkerSplit
  \/ FrameTaskStart
  \/ FrameTaskReturn
  \/ WorkerPool
  \/ WorkerAssemble
  \/ WorkerCrash

PoolSpec == PoolInit /\ [][PoolNext]_vars

\* the detections of one frame: boxes (x, y, w, h) with integer coordinates
Boxes == {<<x, y, w, 1>> : x \in 0..MaxBoxX, y \in 0..MaxBoxY, w \in 1..MaxBoxW}
DetectionLists == UNION {[1..n -> Boxes] : n \in 0..MaxDet}

\* the merge of every list of detections
MergeInit ==
  /\ Unstarted
  /\ ppc = "merge"
  /\ all_detections \in DetectionLists
  /\ merged_detections = <<>>
  /\ AdjustIdle /\ EstimateIdle /\ InteractiveIdle /\ ReconcileIdle /\ DownloadIdle

MergeSpec == MergeInit /\ [][MergeDetections]_vars

\* the detections found in the wrapped frame, whose width is original_width
\* and twice the padding
WrappedBoxes ==
  {<<x, 0, w, 1>> : x \in 0..(MaxWidth + 2 * MaxPad), w \in 0..MaxAdjW}

\* the coordinate correction of every list of detections
AdjustInit ==
  /\ Unstarted
  /\ ppc = "adjust"
  /\ detections \in UNION {[1..n -> WrappedBoxes] : n \in 0..MaxAdjDet}
  /\ pad_w \in 0..MaxPad
  /\ original_width \in 1..MaxWidth
  /\ adjusted = <<>>
  /\ MergeIdle /\ EstimateIdle /\ InteractiveIdle /\ ReconcileIdle /\ DownloadIdle

AdjustSpec == AdjustInit /\ [][AdjustCoords]_vars

\* the time estimate for every pair of rates and every number of frames left
EstimateInit ==
  /\ Unstarted
  /\ ppc = "estimate"
  /\ frames_per_second \in 0..MaxFps
  /\ overall_fps \in 0..MaxFps
  /\ remaining_frames \in 0..MaxLeft
  /\ weighted_fps = 0
  /\ estimated_remaining_time = 0
  /\ time_msg = Message("sec", 0, 0)
  /\ MergeIdle /\ AdjustIdle /\ InteractiveIdle /\ ReconcileIdle /\ DownloadIdle

EstimateSpec == EstimateInit /\ [][EstimateRemaining]_vars

\* process_video of the web application called on its own, as test_blur.py
\* calls it, or for a job of the registry: every combination of the two
\* tracking parameters, with and without a tracker in the OpenCV build, for
\* every number of frames
InteractiveInit ==
  /\ statusFile = Absent
  /\ hist = NoHist
  /\ inputExists = TRUE
  /\ outputExists = FALSE
  /\ wproc = "notstarted"
  /\ wpc = "w5"
  /\ wopen = FALSE
  /\ frame_count = 0
  /\ batch_size = 0
  /\ frame_batches = <<>>
  /\ batch_idx = 0
  /\ total_processed = 0
  /\ registered \in BOOLEAN
  /\ job = IF registered THEN Job("processing", 0, "", FALSE, FALSE) ELSE NoJob
  /\ monPc = "none"
  /\ monRead = "none"
  /\ cancelPc = "idle"
  /\ cancels = 0
  /\ restarts = 0
  /\ resp = NoResp
  /\ use_dnn = TRUE
  /\ models = NoModels
  /\ pending = {}
  /\ running = {}
  /\ results = NoFiles
  /\ artifacts = NoFiles
  /\ outFrames = <<>>
  /\ installed = Kinds
  /\ faults = {"ok"}
  /\ num_cores = MaxCores
  /\ ppc = "none" /\ MergeIdle /\ AdjustIdle /\ EstimateIdle
  /\ ipc = "setup" /\ seen_cancelled = FALSE
  /\ skip_tracking \in BOOLEAN
  /\ disable_legacy_tracking \in BOOLEAN
  /\ tracker_backend \in BOOLEAN
  /\ has_tracking_support = FALSE /\ detection_interval = 1
  /\ total_frames \in 0..MaxTotalFrames
  /\ frame_index = 0
  /\ trackers = <<>> /\ run_detection = FALSE /\ detected = {}
  /\ tracked_objects = <<>> /\ lost = {} /\ blurred = <<>>
  /\ ReconcileIdle /\ DownloadIdle

InteractiveNext ==
  \/ SetupTracking
  \/ CheckCancelled
  \/ ReadFrame
  \/ ProcessFrame
  \/ FinalizeVideo
  \/ CancelProcessing
  \/ CancelDump

InteractiveSpec == InteractiveInit /\ [][InteractiveNext]_vars

\* the snapshots a restarted orchestrator can find in the status file
FoundSnapshots ==
  {SnapAt(pc) : pc \in {"w5", "w10", "w15", "w16", "w95", "w100", "werr"}} \cup {CancelSnap}

\* the orchestrator after a restart, with an empty registry and no thread, and
\* the files of a job whose worker has ended: any snapshot, an unreadable
\* status file or none, with and without the input file
ReconcileInit ==
  /\ statusFile \in FoundSnapshots \cup {Absent, Partial}
  /\ hist = IF statusFile.kind = "json"
              THEN [NoHist EXCEPT !.last = statusFile,
                                  !.terminal = statusFile.status \in Terminal]
              ELSE NoHist
  /\ inputExists \in BOOLEAN
  /\ outputExists = FALSE
  /\ wproc = IF statusFile.status \in {"completed", "error"} THEN "exited" ELSE "dead"
  /\ wpc = "w5"
  /\ wopen = FALSE
  /\ frame_count = 0
  /\ batch_size = 0
  /\ frame_batches = <<>>
  /\ batch_idx = 0
  /\ total_processed = 0
  /\ registered = FALSE
  /\ job = NoJob
  /\ monPc = "none"
  /\ monRead = "none"
  /\ cancelPc = "idle"
  /\ cancels = 0
  /\ restarts = 1
  /\ resp = NoResp
  /\ use_dnn = TRUE
  /\ models = NoModels
  /\ pending = {}
  /\ running = {}
  /\ results = NoFiles
  /\ artifacts = NoFiles
  /\ outFrames = <<>>
  /\ installed = Kinds
  /\ faults = {"ok"}
  /\ num_cores = MaxCores
  /\ ppc = "none" /\ MergeIdle /\ AdjustIdle /\ EstimateIdle /\ InteractiveIdle
  /\ ReconcileIdle /\ DownloadIdle

ReconcileNext == \E r \in Requests : IndexLookup(r) \/ IndexRegister(r)

ReconcileSpec == ReconcileInit /\ [][ReconcileNext]_vars

\* download_file called for one file, with every retries and retry_delay
DownloadInit ==
  /\ Unstarted
  /\ ppc = "none" /\ MergeIdle /\ AdjustIdle /\ EstimateIdle /\ InteractiveIdle
  /\ indexPc = [r \in Requests |-> "idle"]
  /\ indexRead = [r \in Requests |-> Absent]
  /\ monitors = 0
  /\ dpc = "loop"
  /\ url = "given"
  /\ retries \in 0..MaxRetries
  /\ retry_delay \in 1..MaxRetryDelay
  /\ attempt = 0
  /\ alternative \in {"none", "same", "other"}
  /\ asked = [retries |-> retries, retry_delay |-> retry_delay]
  /\ tried = <<>>
  /\ sleeps = <<>>
  /\ returned = "none"

DownloadNext == DownloadAttempt \/ DownloadExhausted

DownloadSpec == DownloadInit /\ [][DownloadNext]_vars

(* ------------------------------- the claims --------------------------- *)

\* C1: while no terminal snapshot has been written, each snapshot the worker
\* writes with a non-terminal status has a progress at least that of the
\* worker's previous snapshot.
C1_ProgressNonDecreasing ==
  [][(~hist.terminal /\ hist.wlast.kind = "json" /\ hist'.wlast.status \notin Terminal)
       => hist'.wlast.progress >= hist.wlast.progress]_vars

\* C2: once the last snapshot written is terminal, every later write, by the
\* worker or by cancel_processing, carries the same status and progress.
C2_TerminalIsFinal ==
  [][hist.last.status \in Terminal
       => (hist'.last.status = hist.last.status /\ hist'.last.progress = hist.last.progress)]_vars

\* C3: a cancel request for a registered job whose in-memory status is terminal
\* leaves that status as it is (the part of the claim about the in-memory job).
C3_CancelTerminalNoOp ==
  [][(cancels' = cancels + 1 /\ job.status \in Terminal) => job'.status = job.status]_vars

\* C4: once cancel_processing has written its marker, the worker's loop does not
\* enter another batch.
C4_NoBatchAfterMarker ==
  [][hist.marker => ~(wproc' = "running" /\ wpc # "wbatch" /\ wpc' = "wbatch")]_vars

\* C5: a registered job in status processing whose worker has died before any
\* terminal snapshot was written eventually has the in-memory status error,
\* unless the orchestrator restarts or the job is cancelled first.
C5_CrashSurfacesError ==
  (wproc = "dead" /\ registered /\ job.status = "processing" /\ ~hist.terminal)
    ~> (job.status \in {"error", "cancelled"} \/ ~registered)

\* the conditions under which download_video may send the output file
Ready ==
  /\ registered
  /\ job.status = "completed"
  /\ statusFile.kind = "json" => statusFile.status = "completed"
  /\ outputExists

\* C6: download_video answers 200 with the file exactly when the job is
\* registered, its in-memory status is completed, the status file, if it holds a
\* snapshot, says completed, and the output file exists; otherwise it answers 404
\* (unknown job, missing output) or 400 (not complete).
C6_ResultGated ==
  resp.op = "download" =>
    /\ resp.code \in {200, 400, 404}
    /\ resp.code = 200 <=> Ready
    /\ resp.code = 404 <=> (~registered \/ (resp.src = "output" /\ ~outputExists))

\* C6 witness: the file was sent while the status file still held the completed snapshot
C6_Witness ==
  resp.op = "download" /\ resp.code = 200 /\ statusFile.kind = "json"

\* C7: the status file, whenever it exists, holds one complete snapshot.
C7_NoPartialFile == statusFile.kind # "partial"

\* C8, as stated: once the status file exists, no step removes it.
C8_SnapshotNeverRemoved ==
  [][statusFile.kind # "absent" => statusFile'.kind # "absent"]_vars

\* C8, amended: only the cleanup at the end of the monitor thread removes the
\* status file, and the monitor reaches that cleanup only by reading a snapshot
\* whose status is completed or error.
C8_OnlyMonitorCleanupRemoves ==
  [][/\ (statusFile.kind # "absent" /\ statusFile'.kind = "absent")
          => (monPc = "cleanup" /\ monPc' = "done")
     /\ (monPc # "cleanup" /\ monPc' = "cleanup")
          => (statusFile.kind = "json" /\ statusFile.status \in {"completed", "error"})]_vars

\* C8 witness: the monitor has finished and removed the file of a job whose
\* terminal snapshot had been written
C8_Witness ==
  monPc = "done" /\ statusFile.kind = "absent" /\ hist.terminal

\* C9: a poll of the monitor that finds no valid JSON in the status file leaves
\* the in-memory job as it is and stays in the loop, and get_job_status then
\* answers 200 with the in-memory status, progress and message.
C9_CorruptReadIsNoUpdate ==
  [][/\ (monRead' # "none" /\ statusFile.kind = "partial")
          => (monRead' = "corrupt" /\ job' = job /\ monPc' = "poll" /\ registered')
     /\ (resp'.op = "status" /\ registered /\ statusFile.kind = "partial")
          => /\ resp'.code = 200
             /\ resp'.status = job.status
             /\ resp'.progress = job.progress
             /\ resp'.message = job.message]_vars

\* C9 witness: the monitor has just polled a truncated file while the job is processing
C9_Witness ==
  monRead = "corrupt" /\ statusFile.kind = "partial" /\ job.status = "processing"
    /\ job.progress > 0

\* ceil(n / 10)
CeilDiv10(n) == (n + 9) \div 10

\* C10: for every frame count >= 1 the batch size is min(100, ceil(n/10)), there
\* are at most 10 batches when n <= 1000, and 237 frames give 9 batches of 24
\* and one of 21.
C10_BatchSizeCeil ==
  (wpc # "split" /\ frame_count >= 1) =>
    /\ batch_size = Min(100, CeilDiv10(frame_count))
    /\ frame_count <= 1000 => Len(frame_batches) <= 10
    /\ frame_count = 237 =>
         (batch_size = 24 /\ frame_batches = <<24, 24, 24, 24, 24, 24, 24, 24, 24, 21>>)

\* the pairs of detections whose IoU is over the threshold, earlier one first
OverlappingPairs ==
  {p \in (1..Len(all_detections)) \X (1..Len(all_detections)) :
     p[1] < p[2] /\ OverThreshold(ComputeIou(all_detections[p[1]], all_detections[p[2]]))}

\* the detections that seeded a merged region
Seeds == {merged_detections[k].seed : k \in 1..Len(merged_detections)}

C12_AdjustedWithinFrame ==
  ppc = "adjusted" =>
    \A k \in 1..Len(adjusted) :
      adjusted[k][1] >= 0 /\ adjusted[k][1] + adjusted[k][3] <= original_width

\* C12 witness: a detection that reached over the right edge was returned, cut
C12_Witness ==
  /\ ppc = "adjusted" /\ Len(adjusted) = 1
  /\ detections[1][1] - pad_w + detections[1][3] > original_width
  /\ adjusted[1][3] > 0

\* C13: whichever frame files are missing when the assembly runs (the others
\* being stored and decodable), it writes exactly frame_count frames in
\* increasing index order, a blank frame at every missing index and the stored
\* frame at every other, and goes on to the completed snapshot.
C13_AssemblyFillsMissing ==
  [][(wpc = "assemble" /\ wpc' = "w100" /\ \A i \in DOMAIN artifacts : artifacts[i] = "ok")
       => /\ Len(outFrames') = frame_count
          /\ \A i \in 0..(frame_count - 1) :
               outFrames'[i + 1] = IF i \in DOMAIN artifacts THEN i ELSE Blank]_vars

\* C13 witness: the job completed with a blank frame between stored frames
C13_Witness ==
  /\ wproc = "exited" /\ hist.wlast.status = "completed"
  /\ Len(outFrames) = 3 /\ outFrames[1] = 0 /\ outFrames[2] = Blank /\ outFrames[3] = 2

\* C14: when process_video has returned, its last write was a terminal
\* snapshot, completed or error; a completed snapshot has progress 100 and is
\* written only after every batch was processed, the video assembled and the
\* frames directory removed.
C14_ReturnsAfterTerminalSnapshot ==
  /\ wproc = "exited" =>
       (hist.last = hist.wlast /\ hist.wlast.status \in {"completed", "error"})
  /\ hist.wlast.status = "completed" =>
       /\ hist.wlast.progress = 100
       /\ batch_idx = Len(frame_batches) /\ total_processed = frame_count
       /\ DOMAIN results = 0..(frame_count - 1)
       /\ artifacts = NoFiles
  /\ (statusFile.kind = "json" /\ statusFile.status = "completed")
       => statusFile.progress = 100

\* C14 witness: process_video returned after the completed snapshot of a video
\* of two batches
C14_Witness ==
  /\ wproc = "exited" /\ statusFile = Snap(100, "Processing complete", "completed", FALSE)
  /\ hist.batches = 2

C16_MissingDetectorIsNotAnError ==
  (faults = {"ok"} /\ (~models.loaded \/ models.kinds # Kinds))
    => \A i \in DOMAIN results : results[i] = "success"

\* C17: the weighted rate is 0.75 of the batch's rate plus 0.25 of the overall
\* rate when the overall rate is positive and the batch's rate otherwise (in
\* quarters of a frame/s: 3 * batch + overall, or 4 * batch); the remaining
\* time is the frames left over the weighted rate (in whole milliseconds); 10
\* and 8 frames/s give 9.5 frames/s, and 95 frames left then give 10 s.
C17_WeightedEstimate ==
  ppc = "estimated" =>
    /\ overall_fps > 0 => weighted_fps = 3 * frames_per_second + overall_fps
    /\ overall_fps = 0 => weighted_fps = 4 * frames_per_second
    /\ weighted_fps > 0 =>
         /\ estimated_remaining_time * weighted_fps <= 4000 * remaining_frames
         /\ 4000 * remaining_frames < (estimated_remaining_time + 1) * weighted_fps
    /\ (frames_per_second = 10 /\ overall_fps = 8) =>
         /\ 10 * weighted_fps = 4 * 95
         /\ remaining_frames = 95 => estimated_remaining_time = 10 * 1000

\* C17 witness: the estimate for 10 and 8 frames/s with 95 frames left
C17_Witness ==
  /\ ppc = "estimated" /\ frames_per_second = 10 /\ overall_fps = 8
  /\ remaining_frames = 95 /\ estimated_remaining_time = 10000

\* the batch a frame belongs to
BatchOf(i) == i \div batch_size

\* C18: while a frame task of a batch runs or has returned, every frame task of
\* the batches before it has returned and the closing snapshot of each of
\* those batches has been written.
C18_BatchesSequential ==
  \A i \in running \cup DOMAIN results :
    /\ \A j \in 0..(frame_count - 1) :
         BatchOf(j) < BatchOf(i) => (j \in DOMAIN results /\ j \notin running)
    /\ hist.batches >= BatchOf(i)
    /\ i \in running => hist.batches = BatchOf(i)

\* C18 witness: both frame tasks of the second batch run at the same time
C18_Witness ==
  /\ wproc = "running" /\ wpc = "pool" /\ batch_idx = 1
  /\ Cardinality(running) = 2 /\ Cardinality(DOMAIN results) = 2

\* the lifecycle statuses
Lifecycle == {"uploading", "processing"} \cup Terminal

\* the changes along uploading -> processing -> {completed, error, cancelled}
\* (a status may also stay, and uploading may end without processing)
Along(s, t) ==
  \/ s = t
  \/ s = "uploading" /\ t \in {"processing"} \cup Terminal
  \/ s = "processing" /\ t \in Terminal

\* C19: the status of a registered job and of every snapshot in the status file
\* is a lifecycle status, and the in-memory status of a job changes only along
\* uploading -> processing -> {completed, error, cancelled}.
C19_LifecycleOrder ==
  [][/\ registered' => job'.status \in Lifecycle
     /\ statusFile'.kind = "json" => statusFile'.status \in Lifecycle
     /\ (registered /\ registered') => Along(job.status, job'.status)]_vars

\* the least and the greatest number of a finite non-empty set
SetMin(S) == CHOOSE m \in S : \A n \in S : m <= n
SetMax(S) == CHOOSE m \in S : \A n \in S : m >= n

\* the tight enclosing rectangle of the detections with the indices in c
EncloseAll(c) ==
  LET x == SetMin({all_detections[j][1] : j \in c})
      y == SetMin({all_detections[j][2] : j \in c})
  IN <<x, y,
       SetMax({all_detections[j][1] + all_detections[j][3] : j \in c}) - x,
       SetMax({all_detections[j][2] + all_detections[j][4] : j \in c}) - y>>

\* C20: every merged region is the tight enclosing rectangle of its seed and of
\* all the detections the seed absorbed.
C20_RegionEnclosesCluster ==
  ppc = "merged" =>
    \A k \in 1..Len(merged_detections) :
      merged_detections[k].box =
        EncloseAll({merged_detections[k].seed} \cup merged_detections[k].absorbed)

\* C21: every two distinct merged regions of a frame have an IoU of at most 0.3
\* with each other.
C21_RegionsDoNotOverlap ==
  ppc = "merged" =>
    \A k, l \in 1..Len(merged_detections) :
      k # l => ~OverThreshold(ComputeIou(merged_detections[k].box, merged_detections[l].box))

\* the box b lies inside the box r
Inside(b, r) ==
  /\ r[1] <= b[1] /\ b[1] + b[3] <= r[1] + r[3]
  /\ r[2] <= b[2] /\ b[2] + b[4] <= r[2] + r[4]

\* C22: every detection given to the merge lies inside at least one merged
\* region; there are at most as many regions as detections, and none exactly
\* when there is no detection.
C22_EveryDetectionCovered ==
  ppc = "merged" =>
    /\ \A j \in 1..Len(all_detections) : \E k \in 1..Len(merged_detections) :
         Inside(all_detections[j], merged_detections[k].box)
    /\ Len(merged_detections) <= Len(all_detections)
    /\ Len(merged_detections) = 0 <=> Len(all_detections) = 0

\* the left edge of detection i after the subtraction of the padding
Corrected(i) == detections[i][1] - pad_w

\* the detections whose corrected box lies at or beyond the frame's width, or
\* ends before 0
Outside ==
  {i \in 1..Len(detections) :
     Corrected(i) >= original_width \/ Corrected(i) + detections[i][3] < 0}

\* the detections whose corrected box shares a column with the frame
Overlapping ==
  {i \in 1..Len(detections) :
     Corrected(i) < original_width /\ Corrected(i) + detections[i][3] > 0}

\* C23: adjust_coords_for_wrapped_detections returns no box for a detection
\* whose corrected box lies at or beyond the frame's width or wholly left of 0,
\* and one box for every detection whose corrected box overlaps the frame.
C23_DiscardsOutside ==
  ppc = "adjusted" =>
    /\ Len(adjusted) <= Len(detections) - Cardinality(Outside)
    /\ Len(adjusted) >= Cardinality(Overlapping)

\* C24: every box adjust_coords_for_wrapped_detections retains is the corrected
\* box cut to the frame: from max(0, corrected x) to
\* min(original_width, corrected x + w), with y and h as they were. Stated for
\* the calls that retain every detection, where the k-th box returned belongs
\* to the k-th detection.
C24_ClippedToCorrectedBox ==
  (ppc = "adjusted" /\ Len(adjusted) = Len(detections)) =>
    \A k \in 1..Len(adjusted) :
      /\ adjusted[k][1] = Max(0, Corrected(k))
      /\ adjusted[k][1] + adjusted[k][3] = Min(original_width, Corrected(k) + detections[k][3])
      /\ adjusted[k][2] = detections[k][2] /\ adjusted[k][4] = detections[k][4]

\* the frames of the k-th batch
BatchIndices(k) == BatchFrames(k - 1, batch_size, frame_batches)

\* C25: for every frame count >= 0 the batches are contiguous, in increasing
\* order of index, pairwise disjoint and cover exactly 0..frame_count-1; every
\* batch but the last has batch_size frames and the last has 1..batch_size; a
\* video of 0 frames has no batch, passes straight to the assembly and no
\* batch is ever run for it.
C25_BatchesPartitionFrames ==
  wpc # "split" =>
    /\ \A k \in 1..Len(frame_batches) :
         /\ frame_batches[k] \in 1..batch_size
         /\ k < Len(frame_batches) => frame_batches[k] = batch_size
         /\ k < Len(frame_batches) =>
              \A i \in BatchIndices(k) : \A j \in BatchIndices(k + 1) : i < j
         /\ \A l \in 1..Len(frame_batches) :
              k # l => BatchIndices(k) \cap BatchIndices(l) = {}
    /\ UNION {BatchIndices(k) : k \in 1..Len(frame_batches)} = 0..(frame_count - 1)
    /\ frame_count = 0 =>
         /\ frame_batches = <<>>
         /\ wpc \in {"w95", "assemble", "w100", "werr", "return"}
         /\ hist.batches = 0
         /\ (wproc = "exited" /\ hist.wlast.status # "error") => hist.wlast.status = "completed"

C25_Witness ==
  /\ frame_count = 0 /\ frame_batches = <<>>
  /\ wproc = "exited" /\ hist.wlast.status = "completed" /\ statusFile.status = "completed"

\* C26: the snapshot that a batch leaves in the status file, the one read until
\* the next batch writes, carries the batch's metrics (fps, batch, frames, time).
C26_BatchSnapshotHasMetrics ==
  [][(wpc = "wupdate" /\ wpc' # "wupdate" /\ statusFile'.kind = "json")
       => statusFile'.metrics]_vars

\* C28: the assembly writes exactly one frame for every index of
\* 0..frame_count-1, also for an index whose frame file exists but does not
\* decode: the output holds frame_count frames.
C28_OutputHasEveryIndex ==
  [][(wpc = "assemble" /\ wpc' = "w100") => Len(outFrames') = frame_count]_vars

\* C27: when the weighted rate is zero, so that the remaining time is
\* undefined, the estimate reports the remaining time as "calculating" and not
\* as a number of seconds.
C27_UndefinedIsCalculating ==
  (ppc = "estimated" /\ weighted_fps = 0) => time_msg.form = "calculating"

\* the frames whose file in the frames directory is written by this step
Written ==
  {i \in DOMAIN artifacts' : i \notin DOMAIN artifacts \/ artifacts'[i] # artifacts[i]}

\* C29: no two frame tasks of a job, of one batch or of two, write the same
\* frame file: a task starts only for an index of the video that no task ran
\* for before, and a frame file is written only by the task of its own index,
\* as that task ends.
C29_OneTaskPerFrameFile ==
  [][/\ \A i \in running' \ running :
          i \in 0..(frame_count - 1) /\ i \notin DOMAIN results
     /\ \A i \in Written :
          i \in running /\ i \notin running' /\ i \notin DOMAIN results]_vars

\* C29 witness: the two frame tasks of the second batch run at the same time,
\* beside the files of the first batch
C29_Witness ==
  /\ wpc = "pool" /\ batch_idx = 1 /\ running = {2, 3}
  /\ DOMAIN artifacts = {0, 1}

\* the rule of the detection schedule for the frame that was read
Scheduled == frame_index = 1 \/ Len(trackers) = 0 \/ frame_index % 5 = 1

\* every 5 consecutive frames processed so far hold a detection frame
DetectionInEveryFive ==
  \A f \in 1..(frame_index - 4) : \E g \in f..(f + 4) : g \in detected

\* C30 as stated: with a tracker backend available the detection runs on a
\* frame exactly when it is frame 1, the tracker list is empty or the frame
\* index mod 5 is 1, hence once in any 5 consecutive frames; without a backend
\* it runs on every frame.
C30_BackendSetsSchedule ==
  /\ ipc = "frame" => run_detection = (IF tracker_backend THEN Scheduled ELSE TRUE)
  /\ ipc \in {"read", "done"} => DetectionInEveryFive

\* C30, amended: the schedule applies when a tracker backend is available and
\* tracking is switched off by neither skip_tracking nor
\* disable_legacy_tracking; in every other call the detection runs on every
\* frame.
C30_TrackingSetsSchedule ==
  /\ ipc = "frame" =>
       run_detection =
         (IF tracker_backend /\ ~skip_tracking /\ ~disable_legacy_tracking
            THEN Scheduled ELSE TRUE)
  /\ ipc \in {"read", "done"} => DetectionInEveryFive

\* C30 witness: frame 6 calls for the detection after four frames carried by
\* the trackers of frame 1
C30_Witness ==
  /\ ipc = "frame" /\ has_tracking_support /\ frame_index = 6
  /\ detected = {1} /\ Len(trackers) > 0 /\ run_detection

\* the frame last processed was a detection frame
AfterDetectionFrame == ipc = "read" /\ frame_index >= 1 /\ frame_index \in detected

\* the frame last processed was carried by the trackers
AfterTrackingFrame == ipc = "read" /\ frame_index >= 1 /\ frame_index \notin detected

\* C31: on a detection frame every box that is blurred comes from the frame's
\* detection and on any other frame from a tracker, and no tracker started
\* before a detection frame is in the list after it.
C31_DetectionFrameBlursDetections ==
  /\ AfterDetectionFrame =>
       /\ \A k \in 1..Len(blurred) : blurred[k] = "detection"
       /\ \A k \in 1..Len(trackers) : trackers[k] = frame_index
  /\ AfterTrackingFrame => \A k \in 1..Len(blurred) : blurred[k] = "tracker"

\* C32: after a frame carried by the trackers, no tracker whose update failed
\* or whose box left the frame is in the tracker list; the tracker list and
\* the list of tracked boxes have the same length at all times.
C32_LostTrackersRemoved ==
  /\ AfterTrackingFrame => \A k \in 1..Len(trackers) : k \notin lost
  /\ Len(trackers) = Len(tracked_objects)

\* C33: once the frame loop has seen the job cancelled and has stopped, the
\* job's status stays cancelled and no later progress update (98 %, 100 %
\* "Processing complete!") is recorded for the job.
C33_CancelledStaysCancelled ==
  seen_cancelled =>
    /\ job.status = "cancelled"
    /\ job.progress \notin {98, 100}
    /\ job.message # "Processing complete!"

\* C34 (its last part): when cancel_processing returns for a registered job,
\* the job's status in the registry and the snapshot in the status file are
\* both cancelled.
C34_CancelledAtReturn ==
  [][(resp'.op = "cancel" /\ resp'.code = 200) =>
       (job'.status = "cancelled" /\ statusFile' = CancelSnap)]_vars

\* C35: index registers a job from its status file, and starts a monitor for
\* it, only if the snapshot says uploading or processing; a snapshot that
\* says completed, error or cancelled creates no registry entry; and at most
\* one monitor is started for the job.
C35_ReconcilesNonTerminalOnce ==
  /\ registered => job.status \in {"processing", "uploading"}
  /\ (statusFile.kind = "json" /\ statusFile.status \in Terminal) =>
       (~registered /\ monitors = 0)
  /\ monitors <= 1

\* C36: once the job of a monitor has reached a terminal status, completed,
\* error or cancelled, the monitor stops polling.
C36_MonitorStopsAtTerminal ==
  (monPc = "poll" /\ registered /\ job.status \in Terminal) ~> (monPc # "poll")

\* C37: a submission that returns an error to the caller leaves no job
\* registered in a non-terminal status: the registry has no entry for it, or
\* the entry's status is error.
C37_FailedUploadLeavesNoLiveJob ==
  [][(resp'.op = "upload" /\ resp'.code # 200) =>
       (~registered' \/ job'.status = "error")]_vars

\* the attempts made on one url
TriesOn(u) == Cardinality({i \in 1..Len(tried) : tried[i].url = u})

\* C38: download_file makes at most `retries` attempts on the given url,
\* doubling the wait after each failed attempt, then at most one attempt on
\* the alternative url when that differs from the given one; it returns True
\* as soon as one attempt succeeds and False otherwise.
C38_DownloadRetriesBounded ==
  /\ TriesOn("given") <= asked.retries
  /\ TriesOn("alternative") <= 1
  /\ TriesOn("alternative") = 1 => alternative = "other"
  /\ \A i \in 1..Len(sleeps) :
       sleeps[i] = IF i = 1 THEN asked.retry_delay ELSE 2 * sleeps[i - 1]
  /\ \A i \in 1..Len(tried) :
       tried[i].outcome = "ok" => (i = Len(tried) /\ returned = "True")
  /\ returned = "True" => (tried # <<>> /\ tried[Len(tried)].outcome = "ok")
  /\ (dpc = "done") = (returned # "none")

====
